---------------------------- MODULE Spec2Model ----------------------------
(***************************************************************************)
(* The Task Store services of the repository.                              *)
(*                                                                         *)
(*  - the in-memory Todo service: a module-level Python list todo_items    *)
(*    and the FastAPI handlers over it                                     *)
(*    (Learning/03_CRUD_ErrorHandling_Tests/main.py and its copy           *)
(*    Learning/Docker/10_multiStage_container_build/main.py, which differs *)
(*    only in how an error is signalled);                                  *)
(*  - the SQL-backed task service: a table of Task rows and the handlers   *)
(*    over a SQLModel session (Learning/Docker/task_management_docker).    *)
(*                                                                         *)
(* A request is handled in one step: the handler runs to its return.  The  *)
(* request handled last and the HTTP response it got are state (req, resp).*)
(***************************************************************************)
EXTENDS Integers, Sequences, FiniteSets, TLC

VARIABLES
    service,        \* which copy of the in-memory service is deployed
    todo_items,     \* the module-level list of Todo_Item
    next_task,      \* history: number of the next task to be created
    live,           \* history: tasks created and not since deleted
    req,            \* the request handled last
    resp,           \* the HTTP response to it
    task_table,     \* the rows of the SQL table "task"
    threads,        \* the request each worker thread is handling, and where it is
    items0,         \* history: todo_items when the first concurrent request began
    users           \* the rows of the SQL table "user"

vars == <<service, todo_items, next_task, live, req, resp, task_table,
          threads, items0, users>>

---------------------------------------------------------------------------
(* Bounds of the model.                                                    *)

\* the number of POST /todo requests in one behaviour, and so the longest
\* todo_items
MaxCreated == 3
\* the primary keys the SQL table draws from are 1 .. MaxTaskId
MaxTaskId == 2
\* the todo_id path parameters of the static endpoints are -MaxTodoId .. MaxTodoId
MaxTodoId == 30
\* the worker threads that handle requests at the same time
MaxThreads == 2
\* the rows the table "user" grows to
MaxUsers == 3

---------------------------------------------------------------------------
(* Python lists.  A Python list is a sequence; Python indexes from 0, and  *)
(* a negative index counts from the end.                                   *)

range(n) == 0 .. (n - 1)

PyIndex(s, i) == IF i < 0 THEN Len(s) + i + 1 ELSE i + 1

\* whether s[i] is an element; where it is not, s[i] raises IndexError
InRange(s, i) == PyIndex(s, i) \in 1 .. Len(s)

\* s[i]
ListGet(s, i) == s[PyIndex(s, i)]

\* s[i] = v
ListSet(s, i, v) == [s EXCEPT ![PyIndex(s, i)] = v]

\* s.append(v), inserting at the front: the order of creation is lost
ListAppend_front(s, v) == <<v>> \o s

\* s.append(v)
ListAppend(s, v) == Append(s, v)

\* s.pop(), without the index: the last element goes
ListPop_last(s, i) == SubSeq(s, 1, Len(s) - 1)

\* the list after s.pop(i)
ListPop(s, i) == SubSeq(s, 1, PyIndex(s, i) - 1) \o SubSeq(s, PyIndex(s, i) + 1, Len(s))

---------------------------------------------------------------------------
(* The in-memory Todo service.                                             *)

Services == {"03_CRUD_ErrorHandling_Tests", "10_multiStage_container_build"}

\* The JSON bodies of POST /todo and PUT /todo/{item_id} that pass validation.
\* "completed" may be left out.
TodoBodies ==
    { [item_id |-> 1, title |-> "t1", description |-> "d1", completed |-> FALSE],
      [item_id |-> 1, title |-> "t2", description |-> "d2", completed |-> TRUE],
      [item_id |-> 0, title |-> "t1", description |-> "d2"] }

\* The item_id path parameters: every index of the list, one below and one
\* or more above.
ItemIds == -1 .. MaxCreated

\* class Todo_Item(BaseModel): the object built from a validated body.  The
\* field task is history, not a field of the class: it names the task (by its
\* number of creation) the object stands for.
Todo_Item(body, task) ==
    [ item_id     |-> body.item_id,
      title       |-> body.title,
      description |-> body.description,
      completed   |-> IF "completed" \in DOMAIN body THEN body.completed ELSE FALSE,
      task        |-> task ]

\* What FastAPI sends for a handler's return value: status 200 and the value
\* as JSON.
Returned(value) == [status |-> 200, body |-> value]

\* return {"message": ..., "item": ...}
Envelope(message, item) ==
    Returned([kind |-> "envelope", message |-> message, item |-> item])

\* return {"error": "Item not found"}, 404: the handler returns a tuple, which
\* FastAPI serialises as the JSON array [{"error": ...}, 404] under status 200.
ErrorTuple(error, code) ==
    Returned([kind |-> "tuple", error |-> error, code |-> code])

\* raise HTTPException(status_code=..., detail=...)
HTTPException(status_code, detail) ==
    [status |-> status_code, body |-> [kind |-> "detail", detail |-> detail]]

\* An exception the handler does not catch (an IndexError of todo_items[item_id]).
InternalServerError ==
    [status |-> 500, body |-> [kind |-> "text", text |-> "Internal Server Error"]]

\* The not-found exit of update_todo, delete_todo and replace_todo.
ItemNotFound ==
    IF service = "03_CRUD_ErrorHandling_Tests"
    THEN ErrorTuple("Item not found", 404)
    ELSE HTTPException(404, "Item not found")

\* GET /todo
get_todo ==
    /\ req' = [op |-> "get_todo"]
    /\ resp' = IF service = "10_multiStage_container_build" /\ todo_items = <<>>
               THEN HTTPException(404, "No todo items found")
               ELSE Returned([kind |-> "list", items |-> todo_items])
    /\ UNCHANGED <<service, todo_items, next_task, live, task_table, threads, items0, users>>

\* POST /todo
create_todo(body) ==
    /\ next_task <= MaxCreated
    /\ LET item == Todo_Item(body, next_task) IN
        /\ todo_items' = ListAppend(todo_items, item)
        /\ resp' = Envelope("Todo item created", item)
    /\ req' = [op |-> "create_todo", body |-> body]
    /\ next_task' = next_task + 1
    /\ live' = live \cup {next_task}
    /\ UNCHANGED <<service, task_table, threads, items0, users>>

\* the existence check of update_todo, without its test for a negative id
update_todo_absent_nonneg(item_id) == item_id >= Len(todo_items)

\* the existence check of update_todo
update_todo_absent(item_id) == item_id >= Len(todo_items) \/ item_id < 0

\* todo_items[item_id].completed = completed, setting the flag of every item
SetCompleted_all(items, item_id, completed) ==
    [k \in 1 .. Len(items) |-> [items[k] EXCEPT !.completed = completed]]

\* todo_items[item_id].completed = completed
SetCompleted(items, item_id, completed) ==
    ListSet(items, item_id, [ListGet(items, item_id) EXCEPT !.completed = completed])

\* PATCH /todo/{item_id}/{completed}
update_todo(item_id, completed) ==
    /\ req' = [op |-> "update_todo", item_id |-> item_id, completed |-> completed]
    /\ IF update_todo_absent(item_id)
       THEN /\ resp' = ItemNotFound
            /\ UNCHANGED todo_items
       ELSE IF ~InRange(todo_items, item_id)
       THEN /\ resp' = InternalServerError
            /\ UNCHANGED todo_items
       ELSE /\ todo_items' = SetCompleted(todo_items, item_id, completed)
            /\ resp' = Envelope("Todo item updated", ListGet(todo_items', item_id))
    /\ UNCHANGED <<service, next_task, live, task_table, threads, items0, users>>

\* DELETE /todo/{item_id}
delete_todo(item_id) ==
    /\ req' = [op |-> "delete_todo", item_id |-> item_id]
    /\ IF \E i \in range(Len(todo_items)) : i = item_id
       THEN LET deleted_item == ListGet(todo_items, item_id) IN
            /\ todo_items' = ListPop(todo_items, item_id)
            /\ resp' = Envelope("Todo item deleted", deleted_item)
            /\ live' = live \ {todo_items[item_id + 1].task}
       ELSE /\ resp' = ItemNotFound
            /\ UNCHANGED <<todo_items, live>>
    /\ UNCHANGED <<service, next_task, task_table, threads, items0, users>>

\* PUT /todo/{item_id}.  The new object takes the place, and so stands for the
\* task, of the one it replaces.
replace_todo(item_id, body) ==
    /\ req' = [op |-> "replace_todo", item_id |-> item_id, body |-> body]
    /\ IF \E i \in range(Len(todo_items)) : i = item_id
       THEN LET item == Todo_Item(body, ListGet(todo_items, item_id).task) IN
            /\ todo_items' = ListSet(todo_items, item_id, item)
            /\ resp' = Envelope("Todo item replaced", item)
       ELSE /\ resp' = ItemNotFound
            /\ UNCHANGED todo_items
    /\ UNCHANGED <<service, next_task, live, task_table, threads, items0, users>>

---------------------------------------------------------------------------
(* Specification of the in-memory Todo service.                            *)

NoRequest == [op |-> "none"]
NoResponse == [status |-> 0, body |-> [kind |-> "none"]]

\* The worker threads of the server's thread pool, which runs the handlers
\* (they are plain def functions).  A thread that handles no request is ready.
Threads == 1 .. MaxThreads
Ready == [pc |-> "ready", request |-> NoRequest, response |-> NoResponse]

Init ==
    /\ service \in Services
    /\ todo_items = <<>>
    /\ next_task = 1
    /\ live = {}
    /\ req = NoRequest
    /\ resp = NoResponse
    /\ task_table = {}
    /\ threads = [t \in Threads |-> Ready]
    /\ items0 = <<>>
    /\ users = {}

Next ==
    \/ get_todo
    \/ \E body \in TodoBodies : create_todo(body)
    \/ \E item_id \in ItemIds, completed \in BOOLEAN : update_todo(item_id, completed)
    \/ \E item_id \in ItemIds : delete_todo(item_id)
    \/ \E item_id \in ItemIds, body \in TodoBodies : replace_todo(item_id, body)

Spec == Init /\ [][Next]_vars

---------------------------------------------------------------------------
(* The in-memory Todo service under concurrent requests.  Each handler runs *)
(* in a thread of the pool; another thread may run between two statements   *)
(* of a handler.  A step below is one statement of one thread; the first    *)
(* statement of a handler is taken together with the arrival of its request.*)
(* A thread handles one request.                                            *)

NoThreadBegan == \A t \in Threads : threads[t].pc = "ready"

\* the first concurrent request remembers the list it began with
Begin == items0' = IF NoThreadBegan THEN todo_items ELSE items0

\* thread t ends its request with response r
Respond(t, request, r) ==
    threads' = [threads EXCEPT ![t] = [pc |-> "done", request |-> request, response |-> r]]

\* thread t goes on to statement pc of its handler
Goto(t, request, pc) ==
    threads' = [threads EXCEPT ![t] = [pc |-> pc, request |-> request, response |-> NoResponse]]

\* get_todo: return todo_items
get_todo_return(t) ==
    /\ threads[t].pc = "ready"
    /\ Begin
    /\ Respond(t, [op |-> "get_todo"],
               IF service = "10_multiStage_container_build" /\ todo_items = <<>>
               THEN HTTPException(404, "No todo items found")
               ELSE Returned([kind |-> "list", items |-> todo_items]))
    /\ UNCHANGED <<service, todo_items, next_task, live, req, resp, task_table, users>>

\* update_todo: if item_id >= len(todo_items) or item_id < 0: return not found
update_todo_check(t, item_id, completed) ==
    /\ threads[t].pc = "ready"
    /\ Begin
    /\ LET request == [op |-> "update_todo", item_id |-> item_id, completed |-> completed] IN
        IF update_todo_absent(item_id)
        THEN Respond(t, request, ItemNotFound)
        ELSE Goto(t, request, "update_todo_assign")
    /\ UNCHANGED <<service, todo_items, next_task, live, req, resp, task_table, users>>

\* update_todo: todo_items[item_id].completed = completed
update_todo_assign(t) ==
    /\ threads[t].pc = "update_todo_assign"
    /\ LET request == threads[t].request IN
        IF ~InRange(todo_items, request.item_id)
        THEN /\ Respond(t, request, InternalServerError)
             /\ UNCHANGED todo_items
        ELSE /\ todo_items' = SetCompleted(todo_items, request.item_id, request.completed)
             /\ Goto(t, request, "update_todo_return")
    /\ UNCHANGED <<service, next_task, live, req, resp, task_table, items0, users>>

\* update_todo: return {"message": ..., "item": todo_items[item_id]}
update_todo_return(t) ==
    /\ threads[t].pc = "update_todo_return"
    /\ LET request == threads[t].request IN
        IF ~InRange(todo_items, request.item_id)
        THEN Respond(t, request, InternalServerError)
        ELSE Respond(t, request,
                     Envelope("Todo item updated", ListGet(todo_items, request.item_id)))
    /\ UNCHANGED <<service, todo_items, next_task, live, req, resp, task_table, items0, users>>

\* delete_todo: for i in range(len(todo_items)): if i == item_id, up to the pop
delete_todo_loop(t, item_id) ==
    /\ threads[t].pc = "ready"
    /\ Begin
    /\ LET request == [op |-> "delete_todo", item_id |-> item_id] IN
        IF \E i \in range(Len(todo_items)) : i = item_id
        THEN Goto(t, request, "delete_todo_pop")
        ELSE Respond(t, request, ItemNotFound)
    /\ UNCHANGED <<service, todo_items, next_task, live, req, resp, task_table, users>>

\* delete_todo: deleted_item = todo_items.pop(item_id); return
delete_todo_pop(t) ==
    /\ threads[t].pc = "delete_todo_pop"
    /\ LET request == threads[t].request IN
        IF ~InRange(todo_items, request.item_id)
        THEN /\ Respond(t, request, InternalServerError)
             /\ UNCHANGED <<todo_items, live>>
        ELSE /\ todo_items' = ListPop(todo_items, request.item_id)
             /\ live' = live \ {ListGet(todo_items, request.item_id).task}
             /\ Respond(t, request,
                        Envelope("Todo item deleted", ListGet(todo_items, request.item_id)))
    /\ UNCHANGED <<service, next_task, req, resp, task_table, items0, users>>

\* replace_todo: for i in range(len(todo_items)): if i == item_id, up to the store
replace_todo_loop(t, item_id, body) ==
    /\ threads[t].pc = "ready"
    /\ Begin
    /\ LET request == [op |-> "replace_todo", item_id |-> item_id, body |-> body] IN
        IF \E i \in range(Len(todo_items)) : i = item_id
        THEN Goto(t, request, "replace_todo_store")
        ELSE Respond(t, request, ItemNotFound)
    /\ UNCHANGED <<service, todo_items, next_task, live, req, resp, task_table, users>>

\* replace_todo: todo_items[item_id] = item; return
replace_todo_store(t) ==
    /\ threads[t].pc = "replace_todo_store"
    /\ LET request == threads[t].request IN
        IF ~InRange(todo_items, request.item_id)
        THEN /\ Respond(t, request, InternalServerError)
             /\ UNCHANGED todo_items
        ELSE LET item == Todo_Item(request.body, ListGet(todo_items, request.item_id).task) IN
             /\ todo_items' = ListSet(todo_items, request.item_id, item)
             /\ Respond(t, request, Envelope("Todo item replaced", item))
    /\ UNCHANGED <<service, next_task, live, req, resp, task_table, items0, users>>

\* Requests handled one at a time fill the list before the concurrent ones.
NextConcurrent ==
    \/ NoThreadBegan /\ \E body \in TodoBodies : create_todo(body)
    \/ \E t \in Threads : get_todo_return(t)
    \/ \E t \in Threads, item_id \in ItemIds, completed \in BOOLEAN :
            update_todo_check(t, item_id, completed)
    \/ \E t \in Threads : update_todo_assign(t)
    \/ \E t \in Threads : update_todo_return(t)
    \/ \E t \in Threads, item_id \in ItemIds : delete_todo_loop(t, item_id)
    \/ \E t \in Threads : delete_todo_pop(t)
    \/ \E t \in Threads, item_id \in ItemIds, body \in TodoBodies :
            replace_todo_loop(t, item_id, body)
    \/ \E t \in Threads : replace_todo_store(t)

SpecConcurrent == Init /\ [][NextConcurrent]_vars

\* What a request gives when its handler runs alone on the list items: the
\* list afterwards and the response.
Atomic(items, request) ==
    CASE request.op = "get_todo" ->
            [ items    |-> items,
              response |-> IF service = "10_multiStage_container_build" /\ items = <<>>
                           THEN HTTPException(404, "No todo items found")
                           ELSE Returned([kind |-> "list", items |-> items]) ]
      [] request.op = "update_todo" ->
            IF request.item_id >= Len(items) \/ request.item_id < 0
            THEN [items |-> items, response |-> ItemNotFound]
            ELSE LET new == SetCompleted(items, request.item_id, request.completed) IN
                 [ items    |-> new,
                   response |-> Envelope("Todo item updated", ListGet(new, request.item_id)) ]
      [] request.op = "delete_todo" ->
            IF request.item_id \in range(Len(items))
            THEN [ items    |-> ListPop(items, request.item_id),
                   response |-> Envelope("Todo item deleted", ListGet(items, request.item_id)) ]
            ELSE [items |-> items, response |-> ItemNotFound]
      [] request.op = "replace_todo" ->
            IF request.item_id \in range(Len(items))
            THEN LET item == Todo_Item(request.body, ListGet(items, request.item_id).task) IN
                 [ items    |-> ListSet(items, request.item_id, item),
                   response |-> Envelope("Todo item replaced", item) ]
            ELSE [items |-> items, response |-> ItemNotFound]

\* the orders in which the threads' requests can be handled one after the other
Orders == {o \in [Threads -> Threads] : \A a, b \in Threads : o[a] = o[b] => a = b}

\* Handling the requests o[k], o[k+1], ... one after the other from the list
\* items gives each the response it got and ends with the list as it is.
RECURSIVE SerialFrom(_, _, _)
SerialFrom(items, o, k) ==
    IF k > MaxThreads
    THEN items = todo_items
    ELSE LET out == Atomic(items, threads[o[k]].request) IN
         /\ out.response = threads[o[k]].response
         /\ SerialFrom(out.items, o, k + 1)

---------------------------------------------------------------------------
(* The SQL-backed task service.                                            *)

\* Python's None and a value that is not None, for the fields typed X | None
None == <<>>
Some(v) == <<v>>

TaskIds == 1 .. MaxTaskId
TaskTitles == {"t1", "t2"}
TaskDescriptions == {None, Some("d1")}

\* class Task(SQLModel, table=True): its columns
TaskFields == {"id", "title", "description"}

\* A JSON object may give a field or leave it out.
OptionalField(name, values) == {<<>>} \cup {name :> v : v \in values}

\* The JSON bodies of POST /create_task and PUT /tasks/{task_id} that pass
\* validation: title is required; id and description may be left out or null.
TaskBodies ==
    { ("title" :> t) @@ i @@ d :
        t \in TaskTitles,
        i \in OptionalField("id", {None} \cup {Some(n) : n \in TaskIds}),
        d \in OptionalField("description", TaskDescriptions) }

\* The Task object validated from a body: a field the body leaves out takes
\* its default, and the object remembers which fields were set.
Task(body) ==
    [ id          |-> IF "id" \in DOMAIN body THEN body["id"] ELSE None,
      title       |-> body["title"],
      description |-> IF "description" \in DOMAIN body THEN body["description"] ELSE None,
      fields_set  |-> DOMAIN body ]

\* the row of a Task object
Row(task) == [f \in TaskFields |-> task[f]]

\* task_update.model_dump(), without exclude_unset: every field is dumped
model_dump_all(task) == [f \in TaskFields |-> task[f]]

\* task_update.model_dump(exclude_unset=True)
model_dump_exclude_unset(task) == [f \in task.fields_set |-> task[f]]

\* for key, value in update_data.items(): setattr(task, key, value)
setattr_all(row, update_data) ==
    [f \in TaskFields |-> IF f \in DOMAIN update_data THEN update_data[f] ELSE row[f]]

\* session.get(Task, task_id), not looking at the key: every row is found
session_get_any(task_id) == task_table

\* session.get(Task, task_id): the set of rows with that primary key (one or none)
session_get(task_id) == {r \in task_table : r["id"] = Some(task_id)}

\* The primary key of the row an INSERT of task writes: the task's id, or,
\* for a task without id, the one the database assigns (any key of the
\* table's sequence).
InsertKeys(task) ==
    IF task.id = None THEN TaskIds ELSE {n \in TaskIds : Some(n) = task.id}

\* POST /create_task.  The INSERT fails when the key is taken; the exception
\* is not caught.
create_task(body, key) ==
    /\ req' = [op |-> "create_task", body |-> body]
    /\ LET row == [Row(Task(body)) EXCEPT !["id"] = Some(key)] IN
          IF \E r \in task_table : r["id"] = row["id"]
          THEN /\ resp' = InternalServerError
               /\ UNCHANGED task_table
          ELSE /\ task_table' = task_table \cup {row}
               /\ resp' = Returned([kind |-> "created", task |-> row])
    /\ UNCHANGED <<service, todo_items, next_task, live, threads, items0, users>>

\* GET /get_tasks
read_tasks ==
    /\ req' = [op |-> "read_tasks"]
    /\ resp' = Returned([kind |-> "tasks", tasks |-> task_table])
    /\ UNCHANGED <<service, todo_items, next_task, live, task_table, threads, items0, users>>

\* GET /tasks/{task_id}, selecting without the key: the first row is returned
read_task_first(task_id) ==
    /\ req' = [op |-> "read_task", task_id |-> task_id]
    /\ resp' = IF task_table = {}
               THEN HTTPException(404, "Task not found")
               ELSE Returned([kind |-> "task",
                              task |-> CHOOSE r \in task_table :
                                          \A q \in task_table : r["id"][1] <= q["id"][1]])
    /\ UNCHANGED <<service, todo_items, next_task, live, task_table, threads, items0, users>>

\* GET /tasks/{task_id}
read_task(task_id) ==
    /\ req' = [op |-> "read_task", task_id |-> task_id]
    /\ resp' = IF session_get(task_id) = {}
               THEN HTTPException(404, "Task not found")
               ELSE Returned([kind |-> "task",
                              task |-> CHOOSE r \in session_get(task_id) : TRUE])
    /\ UNCHANGED <<service, todo_items, next_task, live, task_table, threads, items0, users>>

\* PUT /tasks/{task_id}.  The commit fails when the primary key was set to
\* null or to the key of another row; the exception is not caught.
update_task(task_id, body) ==
    /\ req' = [op |-> "update_task", task_id |-> task_id, body |-> body]
    /\ IF session_get(task_id) = {}
       THEN /\ resp' = HTTPException(404, "Task not found")
            /\ UNCHANGED task_table
       ELSE LET task == CHOOSE r \in session_get(task_id) : TRUE
                update_data == model_dump_exclude_unset(Task(body))
                updated == setattr_all(task, update_data)
            IN IF \/ updated["id"] = None
                  \/ \E r \in task_table \ {task} : r["id"] = updated["id"]
               THEN /\ resp' = InternalServerError
                    /\ UNCHANGED task_table
               ELSE /\ task_table' = (task_table \ {task}) \cup {updated}
                    /\ resp' = Returned([kind |-> "task", task |-> updated])
    /\ UNCHANGED <<service, todo_items, next_task, live, threads, items0, users>>

\* DELETE /tasks/{task_id}, without the commit: the row stays
delete_task_uncommitted(task_id) ==
    /\ req' = [op |-> "delete_task", task_id |-> task_id]
    /\ resp' = IF session_get(task_id) = {}
               THEN HTTPException(404, "Task not found")
               ELSE Returned([kind |-> "message",
                              message |-> "Task deleted successfully"])
    /\ UNCHANGED <<service, todo_items, next_task, live, task_table, threads, items0, users>>

\* DELETE /tasks/{task_id}
delete_task(task_id) ==
    /\ req' = [op |-> "delete_task", task_id |-> task_id]
    /\ IF session_get(task_id) = {}
       THEN /\ resp' = HTTPException(404, "Task not found")
            /\ UNCHANGED task_table
       ELSE /\ task_table' = task_table \ session_get(task_id)
            /\ resp' = Returned([kind |-> "message",
                                 message |-> "Task deleted successfully"])
    /\ UNCHANGED <<service, todo_items, next_task, live, threads, items0, users>>

NextTask ==
    \/ \E body \in TaskBodies : \E key \in InsertKeys(Task(body)) : create_task(body, key)
    \/ read_tasks
    \/ \E task_id \in TaskIds : read_task(task_id)
    \/ \E task_id \in TaskIds, body \in TaskBodies : update_task(task_id, body)
    \/ \E task_id \in TaskIds : delete_task(task_id)

SpecTask == Init /\ [][NextTask]_vars

---------------------------------------------------------------------------
(* The static todo endpoints (Learning/FastAPI/fast-api-endpoints).        *)

TodoIds == (0 - MaxTodoId) .. MaxTodoId

\* f"Task with ID {todo_id}": the text and the number formatted into it
TaskWithID(todo_id) == <<"Task with ID ", todo_id>>

\* GET /todo
todo ==
    /\ req' = [op |-> "todo"]
    /\ resp' = Returned([kind |-> "todos",
                         todos |-> << [id |-> 1, task |-> "Implement FastAPI application"],
                                      [id |-> 2, task |-> "Create endpoints for CRUD operations"] >>])
    /\ UNCHANGED <<service, todo_items, next_task, live, task_table, threads, items0, users>>

\* what todo1 returns
todo1_return(todo_id, add_detail) ==
    IF add_detail
    THEN [ kind   |-> "todo_detail",
           id     |-> todo_id,
           task   |-> "Implement FastAPI application",
           detail |-> "This task involves setting up the FastAPI framework and creating necessary endpoints." ]
    ELSE IF todo_id < 1
    THEN [kind |-> "error", error |-> "Invalid task ID"]
    ELSE [kind |-> "todo", id |-> todo_id, task |-> TaskWithID(todo_id)]

\* GET /todo/{todo_id}?add_detail=...  (GET /todo/2 is routed here as well:
\* this route is declared before /todo/2)
todo1(todo_id, add_detail) ==
    /\ req' = [op |-> "todo1", todo_id |-> todo_id, add_detail |-> add_detail]
    /\ resp' = Returned(todo1_return(todo_id, add_detail))
    /\ UNCHANGED <<service, todo_items, next_task, live, task_table, threads, items0, users>>

NextStatic ==
    \/ todo
    \/ \E todo_id \in TodoIds, add_detail \in BOOLEAN : todo1(todo_id, add_detail)

SpecStatic == Init /\ [][NextStatic]_vars

\* C15: GET /todo/{todo_id} with todo_id below 1 is answered, whatever
\* add_detail is, with status 200 and the body {"error": "Invalid task ID"}.
C15_InvalidIdIsError ==
    (req.op = "todo1" /\ req.todo_id < 1) =>
        /\ resp.status = 200
        /\ resp.body = [kind |-> "error", error |-> "Invalid task ID"]

---------------------------------------------------------------------------
(* The user service (Learning/04_dependencyInjection_SQLmodel_             *)
(* EnvironmentConfig): POST /user/signup.  Each request has a session of   *)
(* its own and runs in a worker thread; the SELECT and the INSERT of       *)
(* signup_user are two statements sent to the database.                    *)

\* The JSON bodies of POST /user/signup that pass validation (class UserCreate).
UserDatas ==
    { [name |-> n, email |-> e, password |-> "p1"] :
        n \in {"n1", "n2"}, e \in {"a@example.com", "b@example.com"} }

\* hash_password(password): the hash stands for the password it was made from
hash_password(password) == <<"argon2", password>>

\* class User(SQLModel, table=True): the row of a new user; the database
\* assigns the next id.  The table has no constraint on email.
User(user_data) ==
    [ id              |-> Cardinality(users) + 1,
      name            |-> user_data.name,
      email           |-> user_data.email,
      hashed_password |-> hash_password(user_data.password) ]

\* existing = session.exec(select(User).where(User.email == ...)).first()
\* and the test of it
signup_user_select(t, user_data) ==
    /\ threads[t].pc = "ready"
    /\ Cardinality(users) < MaxUsers
    /\ LET request == [op |-> "signup_user", user_data |-> user_data] IN
        IF \E u \in users : u.email = user_data.email
        THEN Respond(t, request, HTTPException(400, [error |-> "User already exists"]))
        ELSE Goto(t, request, "signup_user_commit")
    /\ UNCHANGED <<service, todo_items, next_task, live, req, resp, task_table,
                   items0, users>>

\* session.add(user); session.commit(); session.refresh(user); return
signup_user_commit(t) ==
    /\ threads[t].pc = "signup_user_commit"
    /\ LET request == threads[t].request
           user == User(request.user_data)
       IN /\ users' = users \cup {user}
          /\ Respond(t, request,
                     Returned([ kind    |-> "signup",
                                message |-> "User created successfully",
                                user    |-> <<user.name, user.email>> ]))
    /\ UNCHANGED <<service, todo_items, next_task, live, req, resp, task_table, items0>>

\* the thread is given back to the pool, for the next request
thread_released(t) ==
    /\ threads[t].pc = "done"
    /\ threads' = [threads EXCEPT ![t] = Ready]
    /\ UNCHANGED <<service, todo_items, next_task, live, req, resp, task_table,
                   items0, users>>

NextSignup ==
    \/ \E t \in Threads, user_data \in UserDatas : signup_user_select(t, user_data)
    \/ \E t \in Threads : signup_user_commit(t)
    \/ \E t \in Threads : thread_released(t)

SpecSignup == Init /\ [][NextSignup]_vars

\* C16: no two stored User records have the same email, after any sequence
\* and any interleaving of POST /user/signup requests.
C16_EmailsUnique ==
    \A u, v \in users : u.email = v.email => u = v

\* two signups for one email, both answered "User created successfully"
C16_BothSignupsCreated ==
    /\ \A t \in Threads :
          /\ threads[t].pc = "done"
          /\ threads[t].response.status = 200
          /\ threads[t].request.user_data.email = "a@example.com"
    /\ Cardinality(users) = MaxThreads

---------------------------------------------------------------------------
(* Properties of the SQL-backed task service.                              *)

\* C7: a successful PUT /tasks/{task_id} leaves the addressed task with the
\* request's value in every field the request sets and its previous value in
\* every field the request omits, leaves every other task as it was, and
\* returns the updated task.
C7_UpdateChangesOnlySetFields ==
    [][ (req'.op = "update_task" /\ resp'.status = 200) =>
        LET old == CHOOSE r \in task_table : r["id"] = Some(req'.task_id)
            new == resp'.body.task
            body == req'.body
        IN /\ session_get(req'.task_id) # {}
           /\ new \in task_table'
           /\ task_table' \ {new} = task_table \ {old}
           /\ \A f \in TaskFields :
                new[f] = IF f \in DOMAIN body THEN body[f] ELSE old[f] ]_vars

C7_Witness ==
    /\ req.op = "update_task"
    /\ resp.status = 200
    /\ DOMAIN req.body = {"title"}
    /\ resp.body.task["description"] = Some("d1")
    /\ resp.body.task["title"] = "t2"
    /\ Cardinality(task_table) = 2
    /\ \E r \in task_table : r["title"] = "t1"

\* C8: a successful PUT /tasks/{task_id} leaves the addressed task stored
\* under task_id and returns a task whose id is task_id, whatever the body.
C8_UpdateKeepsId ==
    (req.op = "update_task" /\ resp.status = 200) =>
        /\ resp.body.task["id"] = Some(req.task_id)
        /\ \E r \in task_table : r["id"] = Some(req.task_id)

\* C11: once DELETE /tasks/{task_id} has succeeded, a GET /tasks/{task_id} or a
\* second DELETE /tasks/{task_id} handled next answers 404.
C11_DeletedThenNotFound ==
    [][ ( /\ req.op = "delete_task"
          /\ resp.status = 200
          /\ req'.op \in {"read_task", "delete_task"}
          /\ req'.task_id = req.task_id )
        => resp'.status = 404 ]_vars

C11_Witness ==
    /\ req.op = "delete_task"
    /\ resp.status = 200
    /\ req.task_id = 1
    /\ \E r \in task_table : r["id"] = Some(2)

\* C12: for a task_id that no stored task has, GET, PUT and DELETE
\* /tasks/{task_id} answer 404 and leave the stored tasks as they were.
C12_AbsentIs404AndTableUnchanged ==
    [][ ( /\ req'.op \in {"read_task", "update_task", "delete_task"}
          /\ ~\E r \in task_table : r["id"] = Some(req'.task_id) )
        => (resp'.status = 404 /\ task_table' = task_table) ]_vars

C12_Witness ==
    /\ req.op = "update_task"
    /\ resp.status = 404
    /\ "id" \in DOMAIN req.body
    /\ task_table # {}

\* C13: after a successful POST /create_task, a GET /tasks/{id} with the id of
\* the returned record, handled next, returns the record create returned.
C13_CreateThenGetRoundTrip ==
    [][ ( /\ req.op = "create_task"
          /\ resp.status = 200
          /\ req'.op = "read_task"
          /\ Some(req'.task_id) = resp.body.task["id"] )
        => (resp'.status = 200 /\ resp'.body.task = resp.body.task) ]_vars

C13_Witness ==
    /\ req.op = "create_task"
    /\ resp.status = 200
    /\ "id" \notin DOMAIN req.body
    /\ resp.body.task["id"] = Some(2)
    /\ Cardinality(task_table) = 2

---------------------------------------------------------------------------
(* Properties of the in-memory Todo service.                               *)

ItemOps == {"update_todo", "replace_todo", "delete_todo"}

\* item_id addresses a stored item of the list s
Addresses(s, item_id) == item_id \in range(Len(s))

\* the response says that the item was not found
ReportsNotFound(r) ==
    \/ r.body.kind = "tuple" /\ r.body.error = "Item not found" /\ r.body.code = 404
    \/ r.status = 404 /\ r.body.kind = "detail" /\ r.body.detail = "Item not found"

\* the handler returned its {message, item} envelope
Succeeded(r) == r.status = 200 /\ r.body.kind = "envelope"

\* C1: in the service of 03_CRUD_ErrorHandling_Tests, a PATCH, PUT or DELETE
\* whose item_id addresses no stored item is answered with HTTP status 404
\* and an error envelope {error}.
C1_NotFoundIs404 ==
    [][ ( /\ service = "03_CRUD_ErrorHandling_Tests"
          /\ req'.op \in ItemOps
          /\ ~Addresses(todo_items, req'.item_id) )
        => (resp'.status = 404 /\ resp'.body.kind = "error") ]_vars

\* C2: the identifier by which a stored task is addressed never changes: a
\* task stored before and after a request is at the same index before and
\* after it.
C2_AddressImmutable ==
    [][ \A i \in 1 .. Len(todo_items), j \in 1 .. Len(todo_items') :
            todo_items[i].task = todo_items'[j].task => i = j ]_vars

\* C3: no two items of todo_items carry the same item_id.
C3_ItemIdsUnique ==
    \A i, j \in 1 .. Len(todo_items) :
        i # j => todo_items[i].item_id # todo_items[j].item_id

\* C4: for an item_id that is negative or at least the number of stored
\* items, PATCH, PUT and DELETE report not-found and leave todo_items as it
\* was.
C4_AbsentReportedAndListUnchanged ==
    [][ ( /\ req'.op \in ItemOps
          /\ (req'.item_id < 0 \/ req'.item_id >= Len(todo_items)) )
        => (ReportsNotFound(resp') /\ todo_items' = todo_items) ]_vars

C4_Witness ==
    /\ req.op = "replace_todo"
    /\ req.item_id = -1
    /\ Len(todo_items) = 2
    /\ ReportsNotFound(resp)

\* C5: (service of 03_CRUD_ErrorHandling_Tests) GET /todo answers 200 with
\* exactly the tasks created and not since deleted, in the order of their
\* creation.
C5_ListIsLiveTasksInCreationOrder ==
    (service = "03_CRUD_ErrorHandling_Tests" /\ req.op = "get_todo") =>
        /\ resp.status = 200
        /\ resp.body.kind = "list"
        /\ LET items == resp.body.items IN
            /\ {items[i].task : i \in 1 .. Len(items)} = live
            /\ \A i, j \in 1 .. Len(items) : i < j => items[i].task < items[j].task

C5_Witness ==
    /\ service = "03_CRUD_ErrorHandling_Tests"
    /\ req.op = "get_todo"
    /\ Len(resp.body.items) = 2
    /\ resp.body.items[1].task = 2
    /\ resp.body.items[2].task = 3

\* C6: the record POST /todo appends and returns carries the identifier under
\* which the task is addressed from then on (its index), whatever item_id the
\* body supplied.
C6_CreateAssignsAddress ==
    req.op = "create_todo" =>
        /\ resp.body.item.item_id = Len(todo_items) - 1
        /\ todo_items[Len(todo_items)].item_id = Len(todo_items) - 1

\* C9: a successful PATCH changes the completion flag of the addressed task
\* and nothing else, and returns that task with the requested flag.
C9_PatchChangesOnlyCompleted ==
    [][ (req'.op = "update_todo" /\ Succeeded(resp')) =>
        LET k == req'.item_id + 1 IN
        /\ Len(todo_items') = Len(todo_items)
        /\ \A i \in 1 .. Len(todo_items) : i # k => todo_items'[i] = todo_items[i]
        /\ todo_items'[k] = [todo_items[k] EXCEPT !.completed = req'.completed]
        /\ resp'.body.item = todo_items'[k]
        /\ resp'.body.item.completed = req'.completed ]_vars

C9_Witness ==
    /\ req.op = "update_todo"
    /\ Succeeded(resp)
    /\ req.item_id = 1
    /\ Len(todo_items) = 3
    /\ todo_items[2].completed
    /\ ~todo_items[1].completed

\* C10: a successful DELETE returns the task that was stored under item_id
\* and leaves the previous list with that one record removed, the others
\* with their fields and in their order.
C10_DeleteRemovesAddressed ==
    [][ (req'.op = "delete_todo" /\ Succeeded(resp')) =>
        LET k == req'.item_id + 1 IN
        /\ resp'.body.item = todo_items[k]
        /\ Len(todo_items') = Len(todo_items) - 1
        /\ \A i \in 1 .. Len(todo_items') :
              todo_items'[i] = IF i < k THEN todo_items[i] ELSE todo_items[i + 1] ]_vars

C10_Witness ==
    /\ req.op = "delete_todo"
    /\ Succeeded(resp)
    /\ req.item_id = 1
    /\ Len(todo_items) = 2
    /\ resp.body.item.task = 2

\* C14: requests handled concurrently end with the responses and the
\* todo_items of handling them one after the other in some order.
C14_ConcurrentRequestsSerializable ==
    (\A t \in Threads : threads[t].pc = "done") =>
        \E o \in Orders : SerialFrom(items0, o, 1)

\* a PATCH whose check passed and whose access failed after a DELETE's pop
C14_CheckSeparatedFromAccess ==
    /\ threads[1].request.op = "update_todo"
    /\ threads[1].response = InternalServerError
    /\ threads[2].request.op = "delete_todo"
    /\ Succeeded(threads[2].response)
    /\ Len(items0) = 1

===========================================================================
